---- MODULE Spec2Model ----
(***************************************************************************)
(* Form controller of react-redux-form (src/components/form-component.js): *)
(* the validation pass run on mount and on props change, and the submit    *)
(* and reset handlers, together with the store that applies the intents    *)
(* the form dispatches.                                                    *)
(***************************************************************************)
EXTENDS Integers, Sequences, FiniteSets, TLC

\* Object identities.  `===` on objects compares identities, and a handler
\* only ever compares an object of this.props with the one of nextProps, so
\* two identities of each kind tell every case apart.
Refs == {0, 1}
Ids == {0, 1}

\* How many times the model value changes and the parent re-renders the form
\* with changed props.
MaxChanges == 1
MaxRerenders == 1

\* Sub-values a field of the model can hold.
Vals == {"bad", "ok"}
\* The named field paths; "" is the form-level path.
NamedFields == {"email"}

-----------------------------------------------------------------------------
\* ValidityResult = bool | mapping<string, bool>
NoKeys == [k \in {} |-> FALSE]
B(b) == [kind |-> "bool", b |-> b, m |-> NoKeys]
M(f) == [kind |-> "map", b |-> FALSE, m |-> f]

\* A predicate is a named function, possibly wrapped by invertValidators.
P(name) == [name |-> name, inv |-> FALSE]
NoPreds == [k \in {} |-> P("yes")]
\* A Validator Map / Errors Map entry: one predicate or a mapping of named ones.
Fn(name) == [kind |-> "fn", fn |-> P(name), m |-> NoPreds]
Named(f) == [kind |-> "map", fn |-> P("yes"), m |-> f]

NoEntries == [k \in {} |-> Fn("yes")]
NoResults == [k \in {} |-> B(FALSE)]

\* props.validators / props.errors: undefined, or an object with an identity.
Absent == [defined |-> FALSE, id |-> 0, map |-> NoEntries]
Obj(id, map) == [defined |-> TRUE, id |-> id, map |-> map]

\* props.modelValue: an immutable object with an identity.
Model(ref, email) == [ref |-> ref, email |-> email]
NoModel == [ref |-> -1, email |-> "undef"]

-----------------------------------------------------------------------------
\* s.get(modelValue, field): missing segments give undefined.
get(modelValue, field) ==
    IF field = "email" THEN modelValue.email ELSE "undef"

\* `field ? s.get(modelValue, field) : modelValue` compared by `===`:
\* the whole model value by identity, a sub-value (a string) by value.
sameValue(nextModel, currentModel, field) ==
    IF field = ""
    THEN nextModel.ref = currentModel.ref
    ELSE get(nextModel, field) = get(currentModel, field)

\* The user's predicate functions, applied to the value of `field`.
\* The form-level predicates look at the email of the whole model value.
callPredicate(p, modelValue, field) ==
    LET v == IF field = "" THEN modelValue.email ELSE get(modelValue, field)
        r == CASE p.name = "isOk" -> v = "ok"
               [] p.name = "isBad" -> v # "ok"
               [] p.name = "yes" -> TRUE
               [] p.name = "boom" -> TRUE
               [] OTHER -> FALSE
    IN  IF p.inv THEN ~r ELSE r

\* A predicate that throws: "boom" throws for every value but "ok".
raises(p, modelValue, field) ==
    LET v == IF field = "" THEN modelValue.email ELSE get(modelValue, field)
    IN  p.name = "boom" /\ v # "ok"

\* getValidity(validator, value) throws when a predicate it calls throws.
getValidityRaises(validator, modelValue, field) ==
    IF validator.kind = "fn"
    THEN raises(validator.fn, modelValue, field)
    ELSE \E k \in DOMAIN validator.m : raises(validator.m[k], modelValue, field)

getValidity(validator, modelValue, field) ==
    IF validator.kind = "fn"
    THEN B(callPredicate(validator.fn, modelValue, field))
    ELSE M([k \in DOMAIN validator.m |->
               callPredicate(validator.m[k], modelValue, field)])

invertValidity(validity) ==
    IF validity.kind = "map"
    THEN M([k \in DOMAIN validity.m |-> ~validity.m[k]])
    ELSE B(~validity.b)

invertPredicate(p) == [p EXCEPT !.inv = ~p.inv]

invertValidators(validators) ==
    [f \in DOMAIN validators |->
        IF validators[f].kind = "fn"
        THEN [validators[f] EXCEPT !.fn = invertPredicate(@)]
        ELSE [validators[f] EXCEPT
                 !.m = [k \in DOMAIN @ |-> invertPredicate(@[k])]]]

shallowEqual(a, b) == a = b

\* merge(target, source): key-wise where both sides are mappings, the
\* source's value otherwise.
mergeValue(a, b) ==
    IF a.kind = "map" /\ b.kind = "map"
    THEN [b EXCEPT !.m = [k \in DOMAIN a.m \cup DOMAIN b.m |->
                             IF k \in DOMAIN b.m THEN b.m[k] ELSE a.m[k]]]
    ELSE b

merge(target, source) ==
    [f \in DOMAIN target \cup DOMAIN source |->
        IF f \notin DOMAIN source THEN target[f]
        ELSE IF f \notin DOMAIN target THEN source[f]
        ELSE mergeValue(target[f], source[f])]

\* true when a ValidityResult used as errors holds an error.
isInvalid(errors) ==
    IF errors.kind = "map"
    THEN \E k \in DOMAIN errors.m : errors.m[k]
    ELSE errors.b

containsEvent(events, event) == events = event

-----------------------------------------------------------------------------
\* Form Metadata.  Every field has validity, errors and valid; $form also
\* holds the submission flags.
initialFieldState == [validity |-> M(NoKeys), errors |-> M(NoKeys), valid |-> TRUE]
initialFormState ==
    [validity |-> M(NoKeys), errors |-> M(NoKeys), valid |-> TRUE,
     pending |-> FALSE, submitFailed |-> FALSE]
initialForm ==
    [defined |-> TRUE, form |-> initialFormState,
     fields |-> [f \in NamedFields |-> initialFieldState]]
\* formValue of a model that is not registered in the global state.
NoForm == [initialForm EXCEPT !.defined = FALSE]

getField(formValue, field) ==
    IF field = "" THEN formValue.form
    ELSE IF field \in DOMAIN formValue.fields THEN formValue.fields[field]
    ELSE initialFieldState

fieldsValid(formValue) ==
    \A key \in DOMAIN formValue.fields : formValue.fields[key].valid

-----------------------------------------------------------------------------
\* Intents handed to dispatch, and calls of the onSubmit callback, in the
\* order a handler issues them.
Intent(kind, model) ==
    [kind |-> kind, model |-> model, mv |-> NoModel, valid |-> FALSE,
     errs |-> NoResults, evs |-> NoEntries]
setValidity(model, valid) == [Intent("setValidity", model) EXCEPT !.valid = valid]
setFieldsErrors(model, errs) == [Intent("setFieldsErrors", model) EXCEPT !.errs = errs]
setPending(model) == Intent("setPending", model)
setSubmitFailed(model) == Intent("setSubmitFailed", model)
reset(model) == Intent("reset", model)
validateFieldsErrors(model, evs) ==
    [Intent("validateFieldsErrors", model) EXCEPT !.evs = evs]
onSubmit(modelValue) == [Intent("onSubmit", "") EXCEPT !.mv = modelValue]

-----------------------------------------------------------------------------
\* Form.validate(nextProps, initial), with `this` standing for this.props.

\* `a !== b` on the validators / errors props.
sameObject(a, b) == a.defined = b.defined /\ (a.defined => a.id = b.id)

validatorsChanged(this, nextProps) ==
    \/ ~sameObject(nextProps.validators, this.validators)
    \/ ~sameObject(nextProps.errors, this.errors)

\* The comparison of the sub-values inverted.
reuseStoredOnChange(this, nextProps, initial, field) ==
    /\ (~initial /\ ~validatorsChanged(this, nextProps))
    /\ ~sameValue(nextProps.modelValue, this.modelValue, field)

\* The early return of both mapValues callbacks.
reuseStored(this, nextProps, initial, field) ==
    /\ (~initial /\ ~validatorsChanged(this, nextProps))
    /\ sameValue(nextProps.modelValue, this.modelValue, field)

\* The validator applied to the current value instead of the next one.
fieldsValidityOfCurrent(this, nextProps, initial) ==
    [field \in DOMAIN nextProps.validators.map |->
        IF reuseStored(this, nextProps, initial, field)
        THEN getField(this.formValue, field).validity
        ELSE getValidity(nextProps.validators.map[field], this.modelValue, field)]

fieldsValidity(this, nextProps, initial) ==
    [field \in DOMAIN nextProps.validators.map |->
        IF reuseStored(this, nextProps, initial, field)
        THEN getField(this.formValue, field).validity
        ELSE getValidity(nextProps.validators.map[field], nextProps.modelValue, field)]

\* The errors callback without its early return.
fieldsErrorsValidityAlways(this, nextProps, initial) ==
    [field \in DOMAIN nextProps.errors.map |->
        getValidity(nextProps.errors.map[field], nextProps.modelValue, field)]

fieldsErrorsValidity(this, nextProps, initial) ==
    [field \in DOMAIN nextProps.errors.map |->
        IF reuseStored(this, nextProps, initial, field)
        THEN getField(this.formValue, field).errors
        ELSE getValidity(nextProps.errors.map[field], nextProps.modelValue, field)]

\* The entries getValidity is called on: those of the fields for which the
\* mapValues callbacks do not return early.
invoked(this, nextProps, initial) ==
    {<<"validators", field>> :
        field \in {f \in DOMAIN nextProps.validators.map :
                      ~reuseStored(this, nextProps, initial, f)}}
    \cup
    {<<"errors", field>> :
        field \in {f \in DOMAIN nextProps.errors.map :
                      ~reuseStored(this, nextProps, initial, f)}}

\* Some call of getValidity in the two mapValues throws.
raised(this, nextProps, initial) ==
    \/ \E field \in DOMAIN nextProps.validators.map :
          /\ ~reuseStored(this, nextProps, initial, field)
          /\ getValidityRaises(nextProps.validators.map[field],
                               nextProps.modelValue, field)
    \/ \E field \in DOMAIN nextProps.errors.map :
          /\ ~reuseStored(this, nextProps, initial, field)
          /\ getValidityRaises(nextProps.errors.map[field],
                               nextProps.modelValue, field)

\* The errors callback never sets the flag.
validityChangedValidatorsOnly(this, nextProps, initial) ==
    \E field \in DOMAIN nextProps.validators.map :
        /\ ~reuseStored(this, nextProps, initial, field)
        /\ ~shallowEqual(
               getValidity(nextProps.validators.map[field], nextProps.modelValue, field),
               getField(this.formValue, field).validity)

\* The flag set by comparing every field, the reused ones included.
validityChangedIgnoringReuse(this, nextProps, initial) ==
    \/ \E field \in DOMAIN nextProps.validators.map :
          ~shallowEqual(
              getValidity(nextProps.validators.map[field], nextProps.modelValue, field),
              getField(this.formValue, field).validity)
    \/ \E field \in DOMAIN nextProps.errors.map :
          ~shallowEqual(
              getValidity(nextProps.errors.map[field], nextProps.modelValue, field),
              getField(this.formValue, field).errors)

validityChanged(this, nextProps, initial) ==
    \/ \E field \in DOMAIN nextProps.validators.map :
          /\ ~reuseStored(this, nextProps, initial, field)
          /\ ~shallowEqual(
                 getValidity(nextProps.validators.map[field], nextProps.modelValue, field),
                 getField(this.formValue, field).validity)
    \/ \E field \in DOMAIN nextProps.errors.map :
          /\ ~reuseStored(this, nextProps, initial, field)
          /\ ~shallowEqual(
                 getValidity(nextProps.errors.map[field], nextProps.modelValue, field),
                 getField(this.formValue, field).errors)

\* The arguments of merge swapped: the inverted validity wins.
mergeFieldsErrorsValidityWins(validity, errorsValidity) ==
    merge(errorsValidity, [f \in DOMAIN validity |-> invertValidity(validity[f])])

\* merge(invertValidity(fieldsValidity), fieldsErrorsValidity)
mergeFieldsErrors(validity, errorsValidity) ==
    merge([f \in DOMAIN validity |-> invertValidity(validity[f])], errorsValidity)

\* The form-level entry derived from the fields instead of forced to false.
withFormLevelFromFields(validity, errorsValidity, merged) ==
    IF "" \notin DOMAIN validity /\ "" \notin DOMAIN errorsValidity
    THEN [f \in DOMAIN merged \cup {""} |->
             IF f = "" THEN B(\E g \in DOMAIN merged : isInvalid(merged[g]))
             ELSE merged[f]]
    ELSE merged

\* "Compute form-level validity"
withFormLevel(validity, errorsValidity, merged) ==
    IF "" \notin DOMAIN validity /\ "" \notin DOMAIN errorsValidity
    THEN [f \in DOMAIN merged \cup {""} |-> IF f = "" THEN B(FALSE) ELSE merged[f]]
    ELSE merged

\* The errors results left out of the Computed Errors Map.
fieldsErrorsOfValidators(this, nextProps, initial) ==
    LET validity == fieldsValidity(this, nextProps, initial)
        errorsValidity == fieldsErrorsValidity(this, nextProps, initial)
    IN  withFormLevel(validity, errorsValidity,
                      mergeFieldsErrors(validity, NoResults))

fieldsErrors(this, nextProps, initial) ==
    LET validity == fieldsValidity(this, nextProps, initial)
        errorsValidity == fieldsErrorsValidity(this, nextProps, initial)
    IN  withFormLevel(validity, errorsValidity,
                      mergeFieldsErrors(validity, errorsValidity))

\* The fields' validity not consulted.
staleInvalidityFormOnly(formValue) == ~formValue.form.valid

\* The stale async-invalidity test of the branch without validators and errors.
staleInvalidity(formValue) == ~formValue.form.valid /\ fieldsValid(formValue)

NoPass ==
    [kind |-> "none", changed |-> FALSE, computed |-> NoResults,
     called |-> {}, intents |-> <<>>]

\* The pass taken without the test of this.props.formValue.
validateWithoutFormCheck(this, nextProps, initial) ==
    IF /\ ~nextProps.validators.defined
       /\ ~nextProps.errors.defined
       /\ this.modelValue.ref # nextProps.modelValue.ref
    THEN [NoPass EXCEPT
             !.kind = "reconcile",
             !.intents = IF staleInvalidity(this.formValue)
                         THEN <<setValidity(this.model, TRUE)>>
                         ELSE <<>>]
    ELSE LET errs == fieldsErrors(this, nextProps, initial)
             changed == validityChanged(this, nextProps, initial)
         IN  [kind |-> "compute", changed |-> changed, computed |-> errs,
              called |-> invoked(this, nextProps, initial),
              intents |-> IF changed
                          THEN <<setFieldsErrors(this.model, errs)>>
                          ELSE <<>>]

\* A throwing predicate taken as returning, and the pass carried on.
validateSwallow(this, nextProps, initial) ==
    IF ~this.formValue.defined
    THEN [NoPass EXCEPT !.kind = "noForm"]
    ELSE IF /\ ~nextProps.validators.defined
            /\ ~nextProps.errors.defined
            /\ this.modelValue.ref # nextProps.modelValue.ref
    THEN [NoPass EXCEPT
             !.kind = "reconcile",
             !.intents = IF staleInvalidity(this.formValue)
                         THEN <<setValidity(this.model, TRUE)>>
                         ELSE <<>>]
    ELSE LET errs == fieldsErrors(this, nextProps, initial)
             changed == validityChanged(this, nextProps, initial)
         IN  [kind |-> "compute", changed |-> changed, computed |-> errs,
              called |-> invoked(this, nextProps, initial),
              intents |-> IF changed
                          THEN <<setFieldsErrors(this.model, errs)>>
                          ELSE <<>>]

validate(this, nextProps, initial) ==
    IF ~this.formValue.defined
    THEN [NoPass EXCEPT !.kind = "noForm"]
    ELSE IF /\ ~nextProps.validators.defined
            /\ ~nextProps.errors.defined
            /\ this.modelValue.ref # nextProps.modelValue.ref
    THEN [NoPass EXCEPT
             !.kind = "reconcile",
             !.intents = IF staleInvalidity(this.formValue)
                         THEN <<setValidity(this.model, TRUE)>>
                         ELSE <<>>]
    ELSE IF raised(this, nextProps, initial)
    THEN [NoPass EXCEPT !.kind = "threw",
                        !.called = invoked(this, nextProps, initial)]
    ELSE LET errs == fieldsErrors(this, nextProps, initial)
             changed == validityChanged(this, nextProps, initial)
         IN  [kind |-> "compute", changed |-> changed, computed |-> errs,
              called |-> invoked(this, nextProps, initial),
              intents |-> IF changed
                          THEN <<setFieldsErrors(this.model, errs)>>
                          ELSE <<>>]

componentDidMount(this) ==
    IF ~containsEvent(this.validateOn, "change")
    THEN [NoPass EXCEPT !.kind = "off"]
    ELSE validate(this, this, TRUE)

\* validateOn read from this.props instead of nextProps.
componentWillReceivePropsOldTrigger(this, nextProps) ==
    IF ~containsEvent(this.validateOn, "change")
    THEN [NoPass EXCEPT !.kind = "off"]
    ELSE validate(this, nextProps, FALSE)

componentWillReceiveProps(this, nextProps) ==
    IF ~containsEvent(nextProps.validateOn, "change")
    THEN [NoPass EXCEPT !.kind = "off"]
    ELSE validate(this, nextProps, FALSE)

-----------------------------------------------------------------------------
\* The submit and reset handlers.

\* onSubmit called before setPending is dispatched.
handleValidSubmitCallbackFirst(this) ==
    (IF this.onSubmit THEN <<onSubmit(this.modelValue)>> ELSE <<>>)
        \o <<setPending(this.model)>>

handleValidSubmit(this) ==
    <<setPending(this.model)>>
        \o (IF this.onSubmit THEN <<onSubmit(this.modelValue)>> ELSE <<>>)

\* The on-invalid continuation passing through pending.
handleInvalidSubmitAfterPending(this) ==
    <<setPending(this.model), setSubmitFailed(this.model)>>

handleInvalidSubmit(this) == <<setSubmitFailed(this.model)>>

\* reset dispatched only while the form is valid.
handleResetIfValid(this) ==
    IF this.formValue.defined /\ ~this.formValue.form.valid
    THEN <<>>
    ELSE <<reset(this.model)>>

handleReset(this) == <<reset(this.model)>>

\* A form without Form Metadata taken as invalid.
formValidNeedsForm(this) ==
    this.formValue.defined /\ this.formValue.form.valid

formValid(this) ==
    IF this.formValue.defined THEN this.formValue.form.valid ELSE TRUE

\* The fast path taken without looking at this.props.validators.
fastPathAnyValidators(this) == this.onSubmit /\ formValid(this)

fastPath(this) == ~this.validators.defined /\ this.onSubmit /\ formValid(this)

finalErrorValidators(this) ==
    IF this.validators.defined
    THEN merge(invertValidators(this.validators.map), this.errors.map)
    ELSE this.errors.map

\* handleSubmit, with `outcome` the continuation the dispatcher calls while it
\* evaluates the validateFieldsErrors intent.
\* The fast path without its return: the dispatch follows the callback.
handleSubmitNoReturn(this, outcome) ==
    (IF fastPath(this) THEN <<onSubmit(this.modelValue)>> ELSE <<>>)
        \o <<validateFieldsErrors(this.model, finalErrorValidators(this))>>
        \o (IF outcome = "valid"
            THEN handleValidSubmit(this)
            ELSE handleInvalidSubmit(this))

handleSubmit(this, outcome) ==
    IF fastPath(this)
    THEN <<onSubmit(this.modelValue)>>
    ELSE <<validateFieldsErrors(this.model, finalErrorValidators(this))>>
            \o (IF outcome = "valid"
                THEN handleValidSubmit(this)
                ELSE handleInvalidSubmit(this))

-----------------------------------------------------------------------------
\* The dispatcher and the store behind it.

\* The errors the validate-and-branch intent finds in the store's model value.
submitErrors(evs, modelValue) ==
    [f \in DOMAIN evs |-> getValidity(evs[f], modelValue, f)]

\* The continuations the dispatcher may call: on-invalid when a predicate
\* reports an error; on-valid otherwise, unless the Form Metadata marks the
\* form invalid, where the existing validity may decide either way.
outcomes(evs, state) ==
    IF \E f \in DOMAIN evs : isInvalid(submitErrors(evs, state.modelValue)[f])
    THEN {"invalid"}
    ELSE IF state.formValue.defined /\ ~state.formValue.form.valid
    THEN {"valid", "invalid"}
    ELSE {"valid"}

fieldFromErrors(errors) ==
    [validity |-> invertValidity(errors), errors |-> errors,
     valid |-> ~isInvalid(errors)]

applyFieldsErrors(formValue, errs) ==
    LET fields == [f \in DOMAIN formValue.fields |->
                      IF f \in DOMAIN errs
                      THEN fieldFromErrors(errs[f])
                      ELSE formValue.fields[f]]
        own == IF "" \in DOMAIN errs THEN errs[""] ELSE formValue.form.errors
    IN  [formValue EXCEPT
            !.fields = fields,
            !.form.errors = own,
            !.form.validity = invertValidity(own),
            !.form.valid = ~isInvalid(own) /\ (\A f \in DOMAIN fields : fields[f].valid)]

applyIntent(state, intent) ==
    IF ~state.formValue.defined THEN state
    ELSE CASE intent.kind = "setFieldsErrors" ->
                [state EXCEPT !.formValue = applyFieldsErrors(@, intent.errs)]
           [] intent.kind = "setValidity" ->
                [state EXCEPT !.formValue.form =
                    [@ EXCEPT !.validity = B(intent.valid),
                              !.errors = B(~intent.valid),
                              !.valid = intent.valid /\ fieldsValid(state.formValue)]]
           [] intent.kind = "setPending" ->
                [state EXCEPT !.formValue.form.pending = TRUE,
                              !.formValue.form.submitFailed = FALSE]
           [] intent.kind = "setSubmitFailed" ->
                [state EXCEPT !.formValue.form.pending = FALSE,
                              !.formValue.form.submitFailed = TRUE]
           [] intent.kind = "reset" ->
                [state EXCEPT !.formValue = initialForm]
           [] OTHER -> state

RECURSIVE applyAll(_, _)
applyAll(state, intents) ==
    IF intents = <<>> THEN state
    ELSE applyAll(applyIntent(state, Head(intents)), Tail(intents))

-----------------------------------------------------------------------------
\* The configurations a parent passes.
ValidatorMaps ==
    { NoEntries,
      [f \in {"email"} |-> Fn("isOk")],
      [f \in {"", "email"} |->
          IF f = "" THEN Fn("isOk") ELSE Named([k \in {"a", "b"} |-> P("isOk")])] }

ErrorsMaps ==
    { NoEntries,
      [f \in {"email"} |-> Fn("no")],
      [f \in {"email"} |-> Named([k \in {"a", "c"} |->
                                      IF k = "a" THEN P("no") ELSE P("isBad")])] }

\* undefined, the same object, or a new object.
nextMap(current, maps) ==
    {Absent, current}
        \cup {Obj(id, map) : id \in {i \in Ids : ~current.defined \/ i # current.id},
                             map \in maps}

VARIABLES
    props,      \* this.props of the mounted form
    prev,       \* this.props as the last handler found them
    store,      \* the global state: model value and Form Metadata
    mounted,    \* componentDidMount has run
    op,         \* the handler of the last step: "mount", "props", "submit", "reset"
    log,        \* the intents and onSubmit calls of the last handler, in order
    pass,       \* the validation pass of the last handler, if it ran one
    changes,    \* model value changes so far
    rerenders   \* parent re-renders with changed props so far

vars == <<props, prev, store, mounted, op, log, pass, changes, rerenders>>

passOf(r) ==
    [kind |-> r.kind, changed |-> r.changed, computed |-> r.computed,
     called |-> r.called]

\* mapStateToProps
mapStateToProps(state, ownProps) ==
    [ownProps EXCEPT !.modelValue = state.modelValue, !.formValue = state.formValue]

InSync == props = mapStateToProps(store, props)

InitWith(validatorMaps, errorsMaps) ==
    /\ store \in [modelValue : {Model(0, v) : v \in Vals},
                  formValue : {NoForm, initialForm}]
    /\ \E validators \in {Absent} \cup {Obj(0, map) : map \in validatorMaps},
          errors \in {Absent} \cup {Obj(0, map) : map \in errorsMaps},
          validateOn \in {"change", "submit"},
          callback \in BOOLEAN :
          props = [model |-> "user", modelValue |-> store.modelValue,
                   formValue |-> store.formValue, validators |-> validators,
                   errors |-> errors, validateOn |-> validateOn,
                   onSubmit |-> callback]
    /\ prev = props
    /\ mounted = FALSE
    /\ op = "none"
    /\ log = <<>>
    /\ pass = passOf(NoPass)
    /\ changes = 0
    /\ rerenders = 0

Init == InitWith(ValidatorMaps, ErrorsMaps)

Mount ==
    /\ ~mounted
    /\ LET r == componentDidMount(props)
       IN  /\ log' = r.intents
           /\ pass' = passOf(r)
           /\ store' = applyAll(store, r.intents)
    /\ mounted' = TRUE
    /\ op' = "mount"
    /\ prev' = props
    /\ UNCHANGED <<props, changes, rerenders>>

\* The props a parent re-render hands down: one prop changed.
ParentProps(base) ==
    ({[base EXCEPT !.validators = v] : v \in nextMap(props.validators, ValidatorMaps)}
        \cup {[base EXCEPT !.errors = e] : e \in nextMap(props.errors, ErrorsMaps)}
        \cup {[base EXCEPT !.validateOn = w] : w \in {"change", "submit"}}
        \cup {[base EXCEPT !.onSubmit = c] : c \in BOOLEAN}) \ {base}

Receive(nextProps) ==
    LET r == componentWillReceiveProps(props, nextProps)
    IN  /\ log' = r.intents
        /\ pass' = passOf(r)
        /\ store' = applyAll(store, r.intents)
        \* React assigns this.props after componentWillReceiveProps returns.
        /\ props' = IF r.kind = "threw" THEN props ELSE nextProps
        /\ op' = "props"
        /\ prev' = props
        /\ UNCHANGED mounted

\* The connected form re-renders because the store changed.
StoreProps ==
    /\ mounted /\ ~InSync
    /\ Receive(mapStateToProps(store, props))
    /\ UNCHANGED <<changes, rerenders>>

\* The parent re-renders the form with a changed prop.
Rerender ==
    /\ mounted /\ InSync
    /\ rerenders < MaxRerenders
    /\ \E nextProps \in ParentProps(props) : Receive(nextProps)
    /\ rerenders' = rerenders + 1
    /\ UNCHANGED changes

\* No handler of the form runs in this step.
Idle ==
    /\ op' = "none"
    /\ log' = <<>>
    /\ pass' = passOf(NoPass)
    /\ prev' = props

\* A change intent of a field control: the store holds a new model value.
ChangeModel ==
    /\ mounted /\ InSync
    /\ changes < MaxChanges
    /\ \E ref \in Refs \ {store.modelValue.ref}, v \in Vals :
          store' = [store EXCEPT !.modelValue = Model(ref, v)]
    /\ changes' = changes + 1
    /\ Idle
    /\ UNCHANGED <<props, mounted, rerenders>>

\* An asynchronous validation marks the form invalid out of band.
AsyncInvalidate ==
    /\ mounted /\ InSync
    /\ store.formValue.defined /\ store.formValue.form.valid
    /\ store' = [store EXCEPT !.formValue.form =
                    [@ EXCEPT !.validity = B(FALSE), !.errors = B(TRUE),
                              !.valid = FALSE]]
    /\ Idle
    /\ UNCHANGED <<props, mounted, changes, rerenders>>

Submit ==
    /\ mounted /\ InSync
    /\ \E outcome \in outcomes(finalErrorValidators(props), store) :
          /\ log' = handleSubmit(props, outcome)
          /\ store' = applyAll(store, handleSubmit(props, outcome))
    /\ op' = "submit"
    /\ prev' = props
    /\ pass' = passOf(NoPass)
    /\ UNCHANGED <<props, mounted, changes, rerenders>>

Reset ==
    /\ mounted /\ InSync
    /\ log' = handleReset(props)
    /\ store' = applyAll(store, handleReset(props))
    /\ op' = "reset"
    /\ prev' = props
    /\ pass' = passOf(NoPass)
    /\ UNCHANGED <<props, mounted, changes, rerenders>>

Next ==
    \/ Mount
    \/ StoreProps
    \/ Rerender
    \/ ChangeModel
    \/ AsyncInvalidate
    \/ Submit
    \/ Reset

Spec == Init /\ [][Next]_vars

\* Forms configured with a predicate that throws, and the steps that lead to
\* validation passes.  A submit hands the predicates to the dispatcher, which
\* is where they would throw then.
RaisingValidatorMaps ==
    { [f \in {"email"} |-> Fn("boom")],
      [f \in {"", "email"} |->
          IF f = "" THEN Fn("isOk")
          ELSE Named([k \in {"a", "b"} |->
                         IF k = "a" THEN P("isOk") ELSE P("boom")])] }

RaisingErrorsMaps ==
    { [f \in {"email"} |-> Named([k \in {"a", "c"} |->
                                      IF k = "a" THEN P("no") ELSE P("boom")])] }

RaiseInit == InitWith(RaisingValidatorMaps, RaisingErrorsMaps)

PassNext ==
    \/ Mount
    \/ StoreProps
    \/ Rerender
    \/ ChangeModel
    \/ AsyncInvalidate

RaiseSpec == RaiseInit /\ [][PassNext]_vars

-----------------------------------------------------------------------------
\* What the last handler did.

Kinds == [i \in DOMAIN log |-> log[i].kind]
Dispatched(kind) == \E i \in DOMAIN log : log[i].kind = kind
Called == Dispatched("onSubmit")
IsPass == op \in {"mount", "props"}

\* A predicate of the Validator Map of `p` that returns invalid for the model
\* value of `p`: field f, and sub-key k of a mapping of named predicates.
InvalidAt(p, f, k) ==
    LET v == p.validators.map[f]
    IN  IF v.kind = "fn"
        THEN ~callPredicate(v.fn, p.modelValue, f)
        ELSE k \in DOMAIN v.m /\ ~callPredicate(v.m[k], p.modelValue, f)

\* The Errors Map of `p` has an entry that replaces that predicate in the merge.
Replaced(p, f, k) ==
    /\ f \in DOMAIN p.errors.map
    /\ \/ p.validators.map[f].kind = "fn"
       \/ p.errors.map[f].kind = "fn"
       \/ k \in DOMAIN p.errors.map[f].m

SubKeys == {"a", "b", "c"}

SomeInvalid(p) ==
    \E f \in DOMAIN p.validators.map, k \in SubKeys : InvalidAt(p, f, k)

SomeInvalidKept(p) ==
    \E f \in DOMAIN p.validators.map, k \in SubKeys :
        InvalidAt(p, f, k) /\ ~Replaced(p, f, k)

RejectedSubmit ==
    /\ ~Called
    /\ log # <<>>
    /\ log[Len(log)] = setSubmitFailed(prev.model)

\* C1 (as stated): a submit with a Validator Map in which some field's
\* predicate returns invalid for the current model value never calls onSubmit
\* and ends with setSubmitFailed dispatched for the model.
C1_InvalidSubmitAnyErrors ==
    (op = "submit" /\ SomeInvalid(prev)) => RejectedSubmit

\* C1 (amended): a submit with a Validator Map in which some field's predicate
\* returns invalid for the current model value, and which no Errors Map entry
\* for the same field path and sub-key replaces, never calls onSubmit and ends
\* with setSubmitFailed dispatched for the model.
C1_InvalidSubmit ==
    (op = "submit" /\ SomeInvalidKept(prev)) => RejectedSubmit

C1_Witness ==
    /\ op = "submit"
    /\ SomeInvalidKept(prev)
    /\ prev.onSubmit
    /\ prev.errors.defined
    /\ Kinds = <<"validateFieldsErrors", "setSubmitFailed">>

\* C2: with no Validator Map, an onSubmit callback and last-known validity
\* true (or no Form Metadata), submit calls the callback exactly once with the
\* current model value and dispatches nothing.
C2_FastPathSubmit ==
    (/\ op = "submit"
     /\ ~prev.validators.defined
     /\ prev.onSubmit
     /\ (prev.formValue.defined => prev.formValue.form.valid))
        => log = <<onSubmit(prev.modelValue)>>

C2_Witness ==
    /\ op = "submit"
    /\ ~prev.validators.defined
    /\ ~prev.formValue.defined
    /\ prev.modelValue.ref = 1
    /\ log = <<onSubmit(prev.modelValue)>>

\* C3: from every state, reset dispatches exactly one reset intent for the
\* model, calls no callback and dispatches nothing else.
C3_ResetInvariance ==
    op = "reset" => log = <<reset(prev.model)>>

C3_Witness ==
    /\ op = "reset"
    /\ prev.formValue.defined
    /\ ~prev.formValue.form.valid
    /\ prev.formValue.form.submitFailed
    /\ prev.onSubmit
    /\ log = <<reset("user")>>

\* C8: when validateOn is 'submit', neither mount nor a props change runs a
\* validation pass or dispatches an intent; intents come from submit and reset
\* only.
C8_NoPassWithoutChangeTrigger ==
    /\ (IsPass /\ props.validateOn = "submit") => (log = <<>> /\ pass.kind = "off")
    /\ (log # <<>> /\ props.validateOn = "submit") => op \in {"submit", "reset"}

C8_Witness ==
    /\ op = "props"
    /\ props.validateOn = "submit"
    /\ prev.modelValue.ref # props.modelValue.ref
    /\ props.formValue.defined
    /\ SomeInvalid(props)
    /\ props.formValue.fields["email"].valid
    /\ log = <<>>

\* C9: when the on-valid continuation of a submit runs, setPending is
\* dispatched first and onSubmit is called after it, once, with the current
\* model value; without a callback only setPending is dispatched.
C9_OnValidOrdering ==
    (op = "submit" /\ Dispatched("setPending")) =>
        /\ Len(log) >= 2
        /\ log[2] = setPending(prev.model)
        /\ SubSeq(log, 3, Len(log)) =
               (IF prev.onSubmit THEN <<onSubmit(prev.modelValue)>> ELSE <<>>)

C9_Witness ==
    /\ op = "submit"
    /\ Kinds = <<"validateFieldsErrors", "setPending", "onSubmit">>
    /\ log[3].mv = store.modelValue
    /\ prev.validators.defined

\* The entry a pass gives field f when it reuses the Form Metadata of `p`.
StoredEntry(p, validators, errors, f) ==
    LET v == invertValidity(getField(p.formValue, f).validity)
        e == getField(p.formValue, f).errors
    IN  IF f \notin DOMAIN errors THEN v
        ELSE IF f \notin DOMAIN validators THEN e
        ELSE mergeValue(v, e)

SameModelAndKeys ==
    /\ prev.modelValue.ref = props.modelValue.ref
    /\ prev.validators.defined = props.validators.defined
    /\ prev.errors.defined = props.errors.defined
    /\ DOMAIN prev.validators.map = DOMAIN props.validators.map
    /\ DOMAIN prev.errors.map = DOMAIN props.errors.map

SameModelAndMaps ==
    /\ prev.modelValue.ref = props.modelValue.ref
    /\ sameObject(prev.validators, props.validators)
    /\ sameObject(prev.errors, props.errors)

C5_MergePrecedence ==
    /\ (IsPass /\ pass.kind = "compute") =>
          \A f \in DOMAIN props.validators.map \cap DOMAIN props.errors.map :
             LET v == fieldsValidity(prev, props, op = "mount")[f]
                 e == fieldsErrorsValidity(prev, props, op = "mount")[f]
             IN  (v.kind = "map" /\ e.kind = "map") =>
                    pass.computed[f] =
                        M([k \in DOMAIN v.m \cup DOMAIN e.m |->
                              IF k \in DOMAIN e.m THEN e.m[k] ELSE ~v.m[k]])
    /\ (op = "submit" /\ Dispatched("validateFieldsErrors")) =>
          \A f \in DOMAIN prev.validators.map \cap DOMAIN prev.errors.map :
             LET v == prev.validators.map[f]
                 e == prev.errors.map[f]
             IN  (v.kind = "map" /\ e.kind = "map") =>
                    log[1].evs[f] =
                        Named([k \in DOMAIN v.m \cup DOMAIN e.m |->
                                  IF k \in DOMAIN e.m THEN e.m[k]
                                  ELSE invertPredicate(v.m[k])])

C5_Witness ==
    /\ IsPass
    /\ pass.kind = "compute"
    /\ "email" \in DOMAIN props.validators.map \cap DOMAIN props.errors.map
    /\ getValidity(props.validators.map["email"], props.modelValue, "email")
           = M([k \in {"a", "b"} |-> FALSE])
    /\ pass.computed["email"] =
           M([k \in {"a", "b", "c"} |-> k # "a"])

\* C6: a pass whose maps both lack the form-level key '' computes '' as false
\* whatever the fields' results are; with both maps empty it computes exactly
\* {'': false}.
C6_DefaultFormValidity ==
    (IsPass /\ pass.kind = "compute"
        /\ "" \notin DOMAIN props.validators.map
        /\ "" \notin DOMAIN props.errors.map)
        => /\ "" \in DOMAIN pass.computed
           /\ pass.computed[""] = B(FALSE)
           /\ (DOMAIN props.validators.map = {} /\ DOMAIN props.errors.map = {})
                 => pass.computed = [f \in {""} |-> B(FALSE)]

C6_Witness ==
    /\ IsPass
    /\ pass.kind = "compute"
    /\ DOMAIN props.validators.map = {"email"}
    /\ pass.computed["email"] = B(TRUE)
    /\ pass.computed[""] = B(FALSE)

\* The end-to-end configuration: validators { email: isOk } alone, and a
\* model value whose email the predicate finds invalid.
EmailOnly(p) ==
    /\ p.validators.defined
    /\ p.validators.map = [f \in {"email"} |-> Fn("isOk")]
    /\ DOMAIN p.errors.map = {}
    /\ p.modelValue.email = "bad"

\* The pass evaluates the email predicate instead of reusing stored validity.
Evaluated == op = "mount" \/ ~reuseStored(prev, props, FALSE, "email")

\* C7 (as stated): with validators { email: isEmail } alone and an invalid
\* email, the pass computes { email: true, '': true }.
C7_InvalidFieldMarksForm ==
    (IsPass /\ pass.kind = "compute" /\ EmailOnly(props) /\ Evaluated)
        => pass.computed = [f \in {"", "email"} |-> B(TRUE)]

\* C7 (amended): with validators { email: isEmail } alone and an invalid
\* email, a pass that evaluates the predicate computes { email: true,
\* '': false }: the field's error is true and the form-level entry is false.
C7_InvalidField ==
    (IsPass /\ pass.kind = "compute" /\ EmailOnly(props) /\ Evaluated)
        => pass.computed = [f \in {"", "email"} |-> B(f = "email")]

C7_Witness ==
    /\ op = "props"
    /\ pass.kind = "compute"
    /\ EmailOnly(props)
    /\ prev.modelValue.email = "ok"
    /\ pass.computed = [f \in {"", "email"} |-> B(f = "email")]
    /\ pass.changed

\* C10: a pass with neither map configured and a changed model value
\* dispatches setValidity(model, true) exactly when the form is marked invalid
\* while every field of the Form Metadata is valid, and never dispatches
\* setFieldsErrors.
C10_StaleInvalidity ==
    (/\ op = "props"
     /\ props.validateOn = "change"
     /\ ~props.validators.defined
     /\ ~props.errors.defined
     /\ prev.modelValue.ref # props.modelValue.ref)
        => /\ log = IF /\ prev.formValue.defined
                       /\ ~prev.formValue.form.valid
                       /\ \A f \in NamedFields : prev.formValue.fields[f].valid
                    THEN <<setValidity(prev.model, TRUE)>>
                    ELSE <<>>
           /\ ~Dispatched("setFieldsErrors")

C10_Witness ==
    /\ op = "props"
    /\ ~props.validators.defined
    /\ ~props.errors.defined
    /\ prev.modelValue.ref # props.modelValue.ref
    /\ log = <<setValidity("user", TRUE)>>
    /\ store.formValue.form.valid

\* Some predicate of the Errors Map of `p` reports an error for the model
\* value of `p`.
SomeError(p) ==
    \E f \in DOMAIN p.errors.map :
        isInvalid(getValidity(p.errors.map[f], p.modelValue, f))

ErrorsOnlySubmit ==
    /\ op = "submit"
    /\ prev.validateOn = "submit"
    /\ ~prev.validators.defined
    /\ prev.errors.defined
    /\ SomeError(prev)
    /\ prev.onSubmit

\* C11: with validateOn = 'submit', no Validator Map, an Errors Map of which
\* some predicate reports an error for the current model value, and an
\* onSubmit callback, submit dispatches the validate-and-branch intent and does
\* not call onSubmit.
C11_ErrorsCheckedAtSubmit ==
    ErrorsOnlySubmit =>
        /\ log # <<>>
        /\ log[1].kind = "validateFieldsErrors"
        /\ ~Called

\* Two ValidityResults differ, key by key.
Differs(a, b) ==
    \/ a.kind # b.kind
    \/ a.b # b.b
    \/ DOMAIN a.m # DOMAIN b.m
    \/ \E k \in DOMAIN a.m \cap DOMAIN b.m : a.m[k] # b.m[k]

\* Field f is recomputed by the last pass: the pass is the initial one, a map
\* object is new, or the field's sub-value is not the previous one.
Recomputed(f) ==
    \/ op = "mount"
    \/ ~sameObject(prev.validators, props.validators)
    \/ ~sameObject(prev.errors, props.errors)
    \/ ~sameValue(props.modelValue, prev.modelValue, f)

FreshValidityDiffers ==
    \E f \in DOMAIN props.validators.map :
        /\ Recomputed(f)
        /\ Differs(getValidity(props.validators.map[f], props.modelValue, f),
                   getField(prev.formValue, f).validity)

FreshErrorsDiffer ==
    \E f \in DOMAIN props.errors.map :
        /\ Recomputed(f)
        /\ Differs(getValidity(props.errors.map[f], props.modelValue, f),
                   getField(prev.formValue, f).errors)

\* C12: a pass that runs the per-field computation dispatches setFieldsErrors,
\* once and carrying the Computed Errors Map, iff a recomputed field's fresh
\* validator result differs from its stored validity or a recomputed field's
\* fresh errors result differs from its stored errors; otherwise it dispatches
\* nothing.
C12_DispatchIffChanged ==
    (IsPass /\ pass.kind = "compute") =>
        log = IF FreshValidityDiffers \/ FreshErrorsDiffer
              THEN <<setFieldsErrors(props.model, pass.computed)>>
              ELSE <<>>

\* A pass that dispatches because of the errors results alone.
C12_Witness ==
    /\ IsPass /\ pass.kind = "compute"
    /\ ~FreshValidityDiffers /\ FreshErrorsDiffer
    /\ Dispatched("setFieldsErrors")

\* C15: the field paths of the Computed Errors Map of a pass are the keys of
\* the Validator Map, the keys of the Errors Map and the form-level path '';
\* no other field path appears in it.
C15_ComputedKeys ==
    (IsPass /\ pass.kind = "compute") =>
        DOMAIN pass.computed =
            DOMAIN props.validators.map \cup DOMAIN props.errors.map \cup {""}

\* A pass whose Errors Map has a key the Validator Map lacks, and neither map
\* has the form-level key.
C15_Witness ==
    /\ IsPass /\ pass.kind = "compute"
    /\ DOMAIN props.errors.map \ DOMAIN props.validators.map # {}
    /\ "" \notin DOMAIN props.validators.map \cup DOMAIN props.errors.map
    /\ DOMAIN pass.computed = {"", "email"}

\* C16 (as stated): a submit that ends with setSubmitFailed dispatched has a
\* setPending intent dispatched for the model earlier in the same submit.
C16_PendingBeforeFailed ==
    (op = "submit" /\ Dispatched("setSubmitFailed")) =>
        \E i, j \in DOMAIN log :
            /\ i < j
            /\ log[i] = setPending(prev.model)
            /\ log[j].kind = "setSubmitFailed"

\* C16 (amended): a submit that ends with setSubmitFailed dispatches it right
\* after the validate-and-branch intent, without any setPending; setPending is
\* dispatched only by a submit that does not dispatch setSubmitFailed, right
\* after the validate-and-branch intent.
C16_PendingOnlyWhenValid ==
    op = "submit" =>
        /\ Dispatched("setSubmitFailed") =>
              /\ Kinds = <<"validateFieldsErrors", "setSubmitFailed">>
              /\ log[2] = setSubmitFailed(prev.model)
        /\ Dispatched("setPending") =>
              /\ Len(log) >= 2
              /\ Kinds[1] = "validateFieldsErrors"
              /\ log[2] = setPending(prev.model)
              /\ ~Dispatched("setSubmitFailed")

\* A rejected submit: the store holds submitFailed and is not pending.
C16_Witness ==
    /\ op = "submit"
    /\ Kinds = <<"validateFieldsErrors", "setSubmitFailed">>
    /\ store.formValue.defined
    /\ store.formValue.form.submitFailed
    /\ ~store.formValue.form.pending

\* C17: a submit either takes the fast path (the callback called once, no
\* intent dispatched) or dispatches one validateFieldsErrors intent followed by
\* exactly one of: setPending and then the callback (when there is one), or
\* setSubmitFailed; the callback is called at most once and never together
\* with setSubmitFailed.
C17_OneOutcomePerSubmit ==
    op = "submit" =>
        /\ \/ log = <<onSubmit(prev.modelValue)>>
           \/ /\ Kinds \in {<<"validateFieldsErrors", "setPending", "onSubmit">>,
                            <<"validateFieldsErrors", "setPending">>,
                            <<"validateFieldsErrors", "setSubmitFailed">>}
              /\ Kinds = <<"validateFieldsErrors", "setPending">> => ~prev.onSubmit
        /\ Cardinality({i \in DOMAIN log : log[i].kind = "onSubmit"}) <= 1
        /\ ~(Called /\ Dispatched("setSubmitFailed"))

\* A fast-path submit of a form that has an Errors Map and Form Metadata.
C17_Witness ==
    /\ op = "submit"
    /\ Kinds = <<"onSubmit">>
    /\ prev.errors.defined
    /\ prev.formValue.defined

\* The last pass observed a Form Metadata update and nothing else: the model
\* value and both map objects are the previous ones.
MetadataOnlyPass ==
    /\ op = "props"
    /\ props.validateOn = "change"
    /\ prev.validateOn = "change"
    /\ SameModelAndMaps
    /\ prev.formValue # props.formValue

\* C18: with validateOn = 'change' and unchanged map objects, the pass that
\* observes only a Form Metadata update, the model value unchanged, dispatches
\* no intent and leaves the form in step with the store: the chain of passes
\* started by a model-value change ends there.
C18_Quiescence ==
    MetadataOnlyPass => (log = <<>> /\ store.formValue = props.formValue /\ InSync)

\* The pass that follows the store applying the setFieldsErrors dispatched
\* after a model-value change.
C18_Witness ==
    /\ MetadataOnlyPass
    /\ changes = 1
    /\ props.formValue.defined
    /\ ~props.formValue.fields["email"].valid
    /\ prev.formValue.fields["email"].valid
    /\ prev.modelValue.email = "bad"

\* C19: while the Form Metadata of the form is absent, a validation pass on
\* mount or on props change invokes no predicate and dispatches no intent,
\* whatever validators, errors and model value are.
C19_NoFormNoValidation ==
    (IsPass /\ ~prev.formValue.defined) =>
        /\ log = <<>>
        /\ pass.called = {}
        /\ pass.kind \in {"noForm", "off"}
        /\ store.formValue = prev.formValue

\* A pass without Form Metadata that has predicates to call on a new model
\* value.
C19_Witness ==
    /\ op = "props"
    /\ ~prev.formValue.defined
    /\ props.validateOn = "change"
    /\ props.validators.defined /\ props.errors.defined
    /\ DOMAIN props.validators.map # {}
    /\ prev.modelValue.email # props.modelValue.email
    /\ pass.kind = "noForm"

\* The field paths either map of `p` configures.
Configured(p) == DOMAIN p.validators.map \cup DOMAIN p.errors.map

\* The sub-value of f in the last pass is identical to the previous one.
Unchanged(f) == sameValue(props.modelValue, prev.modelValue, f)

\* C13: in a non-initial pass with both map objects unchanged, a field whose
\* sub-value is identical to the previous one has none of its predicates
\* invoked and its entry of the Computed Errors Map taken from the stored
\* validity and errors, and it does not set the changed flag: the flag is set
\* only by a field whose sub-value is new.  On the initial pass the predicates
\* of every configured field are invoked.
C13_PerFieldSkip ==
    /\ (/\ op = "props" /\ pass.kind = "compute"
        /\ sameObject(prev.validators, props.validators)
        /\ sameObject(prev.errors, props.errors)) =>
          /\ \A f \in Configured(props) :
                Unchanged(f) =>
                    /\ <<"validators", f>> \notin pass.called
                    /\ <<"errors", f>> \notin pass.called
                    /\ pass.computed[f] =
                          StoredEntry(prev, props.validators.map, props.errors.map, f)
          /\ pass.changed =>
                \E f \in Configured(props) :
                    /\ ~Unchanged(f)
                    /\ \/ /\ f \in DOMAIN props.validators.map
                          /\ Differs(getValidity(props.validators.map[f],
                                                 props.modelValue, f),
                                     getField(prev.formValue, f).validity)
                       \/ /\ f \in DOMAIN props.errors.map
                          /\ Differs(getValidity(props.errors.map[f],
                                                 props.modelValue, f),
                                     getField(prev.formValue, f).errors)
    /\ (op = "mount" /\ pass.kind = "compute") =>
          pass.called =
              {<<"validators", f>> : f \in DOMAIN props.validators.map}
                  \cup {<<"errors", f>> : f \in DOMAIN props.errors.map}

\* A pass that recomputes the form-level field for a new model value and skips
\* the email field, whose value is the previous one and whose stored errors
\* are not what its predicates would return.
C13_Witness ==
    /\ op = "props" /\ pass.kind = "compute"
    /\ sameObject(prev.validators, props.validators)
    /\ sameObject(prev.errors, props.errors)
    /\ <<"validators", "">> \in pass.called
    /\ Unchanged("email") /\ ~Unchanged("")
    /\ "email" \in DOMAIN props.errors.map
    /\ Differs(getValidity(props.errors.map["email"], props.modelValue, "email"),
               getField(prev.formValue, "email").errors)
    /\ <<"errors", "email">> \notin pass.called

\* The predicate of map `which` for field f in props `p`.
EntryOf(p, which, f) ==
    IF which = "validators" THEN p.validators.map[f] ELSE p.errors.map[f]

\* The pass completed although a predicate it called throws.
CompletedDespiteRaise ==
    /\ IsPass /\ pass.kind = "compute"
    /\ \E c \in pass.called :
          getValidityRaises(EntryOf(props, c[1], c[2]), props.modelValue, c[2])

\* validate() is reached: the trigger is on and the Form Metadata is present.
Validates(this, nextProps) ==
    nextProps.validateOn = "change" /\ this.formValue.defined

\* C14: a pass in which a Validator Map or Errors Map predicate throws is
\* aborted: it dispatches no intent and leaves the store and this.props as
\* they were; a pass completes only if none of the predicates it calls
\* throws.  The initial pass and the pass on a store update throw exactly when
\* a predicate that is not skipped throws for the next model value, so a
\* later pass whose predicates return runs normally.
C14_RaiseAbortsPass ==
    [][ /\ (IsPass' /\ pass'.kind = "threw") =>
              (log' = <<>> /\ store' = store /\ props' = props)
        /\ ~CompletedDespiteRaise'
        /\ (~mounted /\ mounted' /\ Validates(props, props)) =>
              /\ (pass'.kind = "threw") = raised(props, props, TRUE)
              /\ pass'.kind \in {"threw", "compute", "reconcile"}
        /\ (mounted /\ ~InSync /\ op' = "props"
               /\ Validates(props, mapStateToProps(store, props))) =>
              /\ (pass'.kind = "threw") =
                    raised(props, mapStateToProps(store, props), FALSE)
              /\ pass'.kind \in {"threw", "compute", "reconcile"}
              /\ pass'.kind # "threw" => props' = mapStateToProps(store, props)
      ]_vars

\* The initial pass threw for the email 'bad'; the pass for the next model
\* value finds predicates that return, completes and dispatches.
C14_Witness ==
    /\ op = "props" /\ pass.kind = "compute"
    /\ rerenders = 0 /\ changes = 1
    /\ Validates(prev, prev)
    /\ raised(prev, prev, TRUE)
    /\ pass.called # {}
    /\ Dispatched("setFieldsErrors")

====
